---- MODULE Spec2Model ----
(***************************************************************************)
(* System call dispatcher of the kernel (kernel/src/syscall/mod.rs):       *)
(* syscall(id, args, tf), the SysError taxonomy and its Display impl.      *)
(*                                                                         *)
(* A machine word (usize) is kept at its real width as a little-endian     *)
(* sequence of bytes, so that the `as` casts of the match arms truncate    *)
(* and reinterpret exactly as the code does.                               *)
(***************************************************************************)
EXTENDS Integers, Sequences, FiniteSets, TLC

VARIABLES
    pc,       \* per context: "user", "trapped", "matched", "returned", "exited", "faulted"
    id,       \* per context: the `id` argument of syscall()
    args,     \* per context: the `args` argument of syscall(), six words
    tf,       \* per context: the trap frame `tf` points to
    tfIn,     \* per context: the trap frame as it was when syscall() was entered
    ret,      \* per context: the local `ret` of syscall(), a SysResult
    rv,       \* per context: the isize syscall() returned
    notices,  \* per context: what the invocation sent to warn!/error!
    calls,    \* per context: the handlers and the fault handler the invocation called
    err,      \* the SysError given to Display::fmt
    shown     \* the strings Display::fmt wrote for err, in order

vars == <<pc, id, args, tf, tfIn, ret, rv, notices, calls, err, shown>>

----------------------------------------------------------------------------
(* Bounds of the model *)

NThreads == 2       \* execution contexts that may be inside syscall() at once
MaxId == 300        \* identifiers 0..MaxId are dispatched
MaxTf == 1          \* the opaque trap frame takes the values 0..MaxTf
MaxPayload == 2     \* a handler's success payload is 0..MaxPayload
MaxFmt == 2         \* how often one error value is formatted

Threads == 1..NThreads
Ids == 0..MaxId
TfVals == 0..MaxTf

----------------------------------------------------------------------------
(* Machine words and the `as` casts *)

WordBits == 64      \* usize, isize, i64, raw pointers
I32Bits == 32
U8Bits == 8

ByteBase == 2^U8Bits
WordBytes == WordBits \div U8Bits

Word(b1, b2, b3, b4, b5, b6, b7, b8) == <<b1, b2, b3, b4, b5, b6, b7, b8>>

\* the raw words user mode is taken to pass: the boundaries of every cast
RawWords ==
    << Word(0, 0, 0, 0, 0, 0, 0, 0),                    \* 0
       Word(7, 0, 0, 0, 0, 0, 0, 0),                    \* 7
       Word(255, 0, 0, 0, 0, 0, 0, 0),                  \* u8::MAX
       Word(2, 1, 0, 0, 0, 0, 0, 0),                    \* 0x102
       Word(255, 255, 255, 127, 0, 0, 0, 0),            \* i32::MAX
       Word(3, 0, 0, 128, 0, 0, 0, 0),                  \* 0x8000_0003
       Word(4, 0, 0, 0, 1, 0, 0, 0),                    \* 0x1_0000_0004
       Word(255, 255, 255, 255, 255, 255, 255, 127),    \* isize::MAX
       Word(5, 0, 0, 0, 0, 0, 0, 128),                  \* 0x8000_0000_0000_0005
       Word(255, 255, 255, 255, 255, 255, 255, 255) >>  \* usize::MAX

\* argument vectors: the raw words in order, starting at each of them in turn
ArgVec(k) == [i \in 1..6 |-> RawWords[((i + k) % Len(RawWords)) + 1]]
ArgVecs == {ArgVec(k) : k \in 0..(Len(RawWords) - 1)}

TypeBits(ty) ==
    CASE ty = "u8" -> U8Bits
      [] ty = "i32" -> I32Bits
      [] OTHER -> WordBits       \* usize, isize, i64, *const T, *mut T

IsSigned(ty) == ty \in {"i32", "i64", "isize"}
IsPointer(ty) == ty \in {"*mut u8", "*const u8", "*mut Stat", "*const IoVec",
                         "*mut i32", "*mut DirEntry", "*const *const u8"}

\* `w as ty`: the low TypeBits(ty) bits of w
Truncate(w, bits) == [i \in 1..WordBytes |-> IF i * U8Bits <= bits THEN w[i] ELSE 0]

\* faulty variant: a cast that keeps the whole word
Cast_Keep(w, ty) == [ty |-> ty, bits |-> w]

Cast(w, ty) == [ty |-> ty, bits |-> Truncate(w, TypeBits(ty))]

RECURSIVE Inc(_, _)
Inc(w, i) ==
    IF i > WordBytes THEN w
    ELSE IF w[i] < ByteBase - 1 THEN [w EXCEPT ![i] = w[i] + 1]
    ELSE Inc([w EXCEPT ![i] = 0], i + 1)

\* 2^bits - w as a word, for a w whose top bit (of `bits`) is set
Negate(w, bits) ==
    Inc([i \in 1..WordBytes |-> IF i * U8Bits <= bits THEN ByteBase - 1 - w[i] ELSE 0], 1)

TopBit(w, bits) == w[bits \div U8Bits] >= ByteBase \div 2

\* the integer a typed value denotes, as sign and magnitude
NumVal(v) ==
    IF IsSigned(v.ty) /\ TopBit(v.bits, TypeBits(v.ty))
    THEN [neg |-> TRUE, mag |-> Negate(v.bits, TypeBits(v.ty))]
    ELSE [neg |-> FALSE, mag |-> v.bits]

\* the integer a raw usize word denotes
WordNum(w) == [neg |-> FALSE, mag |-> w]

----------------------------------------------------------------------------
(* SysError: the discriminants of the enum *)

SysErrorCode ==
    [ EUNDEF |-> 0, EPERM |-> 1, ENOENT |-> 2, ESRCH |-> 3, EINTR |-> 4, EIO |-> 5,
      ENXIO |-> 6, E2BIG |-> 7, ENOEXEC |-> 8, EBADF |-> 9, ECHILD |-> 10,
      EAGAIN |-> 11, ENOMEM |-> 12, EACCES |-> 13, EFAULT |-> 14, ENOTBLK |-> 15,
      EBUSY |-> 16, EEXIST |-> 17, EXDEV |-> 18, ENODEV |-> 19, ENOTDIR |-> 20,
      EISDIR |-> 21, EINVAL |-> 22, ENFILE |-> 23, EMFILE |-> 24, ENOTTY |-> 25,
      ETXTBSY |-> 26, EFBIG |-> 27, ENOSPC |-> 28, ESPIPE |-> 29, EROFS |-> 30,
      EMLINK |-> 31, EPIPE |-> 32, EDOM |-> 33, ERANGE |-> 34, EDEADLK |-> 35,
      ENAMETOOLONG |-> 36, ENOLCK |-> 37, ENOSYS |-> 38, ENOTEMPTY |-> 39 ]

SysError == DOMAIN SysErrorCode

\* SysResult = Result<isize, SysError>
Ok(code) == [tag |-> "Ok", code |-> code]
Err(e) == [tag |-> "Err", err |-> e]
NoResult == [tag |-> "None"]
SysResults == {Ok(c) : c \in 0..MaxPayload} \cup {Err(e) : e \in SysError}

----------------------------------------------------------------------------
(* impl fmt::Display for SysError *)

\* the arms of `match self`, in order: the pattern and the string of each
FmtArms ==
    << <<"EPERM", "Operation not permitted">>,
       <<"ENOENT", "No such file or directory">>,
       <<"ESRCH", "No such process">>,
       <<"EINTR", "Interrupted system call">>,
       <<"EIO", "I/O error">>,
       <<"ENXIO", "No such device or address">>,
       <<"E2BIG", "Argument list too long">>,
       <<"ENOEXEC", "Exec format error">>,
       <<"EBADF", "Bad file number">>,
       <<"ECHILD", "No child processes">>,
       <<"EAGAIN", "Try again">>,
       <<"ENOMEM", "Out of memory">>,
       <<"EACCES", "Permission denied">>,
       <<"EFAULT", "Bad address">>,
       <<"ENOTBLK", "Block device required">>,
       <<"EBUSY", "Device or resource busy">>,
       <<"EEXIST", "File exists">>,
       <<"EXDEV", "Cross-device link">>,
       <<"ENODEV", "No such device">>,
       <<"ENOTDIR", "Not a directory">>,
       <<"EISDIR", "Is a directory">>,
       <<"EINVAL", "Invalid argument">>,
       <<"ENFILE", "File table overflow">>,
       <<"EMFILE", "Too many open files">>,
       <<"ENOTTY", "Not a typewriter">>,
       <<"ETXTBSY", "Text file busy">>,
       <<"EFBIG", "File too large">>,
       <<"ENOSPC", "No space left on device">>,
       <<"ESPIPE", "Illegal seek">>,
       <<"EROFS", "Read-only file system">>,
       <<"EMLINK", "Too many links">>,
       <<"EPIPE", "Broken pipe">>,
       <<"EDOM", "Math argument out of domain of func">>,
       <<"ERANGE", "Math result not representable">>,
       <<"EDEADLK", "Resource deadlock would occur">>,
       <<"ENAMETOOLONG", "File name too long">>,
       <<"ENOLCK", "No record locks available">>,
       <<"ENOSYS", "Function not implemented">>,
       <<"ENOTEMPTY", "Directory not empty">>,
       <<"_", "Unknown error">> >>

\* The names the module's `use` items bring into scope as enum variants or
\* constants.  None of them imports the variants of SysError (there is no
\* `use self::SysError::*`), so inside the impl a bare EPERM names no item.
VariantsInScope == {}

\* Rust pattern matching: an identifier that names a variant or constant in
\* scope matches that value only; any other identifier is a fresh binding and
\* matches every value, as `_` does (hence #[allow(non_snake_case)] on the impl).
PatternMatches(pat, e) == IF pat \in VariantsInScope THEN e = pat ELSE TRUE

RECURSIVE FirstArm(_, _)
FirstArm(e, i) ==
    IF PatternMatches(FmtArms[i][1], e) THEN FmtArms[i][2] ELSE FirstArm(e, i + 1)

\* what fmt() writes for the error kind e
Display(e) == FirstArm(e, 1)

----------------------------------------------------------------------------
(* syscall(): the arms of `match id` *)

\* One argument of a handler call: args[idx] (0-based, as in the code) cast
\* to the parameter's type; "usize" is the uncast word.
P(idx, ty) == <<idx, ty>>

\* `id => sys_x(...)`: a call of an external handler that yields a SysResult
Call(name, params, withTf) ==
    [kind |-> "call", name |-> name, params |-> params, tf |-> withTf,
     warn |-> "", returns |-> TRUE]

\* `id => sys_exit(...)`: sys_exit is `-> !`, the arm yields no value
Diverge(name, params) ==
    [kind |-> "call", name |-> name, params |-> params, tf |-> FALSE,
     warn |-> "", returns |-> FALSE]

\* `id => { warn!(...); Ok(0) }`
Stub(msg) ==
    [kind |-> "stub", name |-> "", params |-> <<>>, tf |-> FALSE,
     warn |-> msg, returns |-> TRUE]

\* `218 => { warn!(...); Ok(thread::current().id() as isize) }`
TidStub(msg) ==
    [kind |-> "tid", name |-> "", params |-> <<>>, tf |-> FALSE,
     warn |-> msg, returns |-> TRUE]

\* `231 => { warn!(...); sys_exit(args[0] as isize); }`
WarnDiverge(msg, name, params) ==
    [kind |-> "call", name |-> name, params |-> params, tf |-> FALSE,
     warn |-> msg, returns |-> FALSE]

\* `_ => { error!(...); crate::trap::error(tf); }`
Unknown ==
    [kind |-> "unknown", name |-> "trap::error", params |-> <<>>, tf |-> TRUE,
     warn |-> "", returns |-> FALSE]

MatchArms(i) ==
    CASE i = 0 -> Call("sys_read", <<P(0, "usize"), P(1, "*mut u8"), P(2, "usize")>>, FALSE)
      [] i = 1 -> Call("sys_write", <<P(0, "usize"), P(1, "*const u8"), P(2, "usize")>>, FALSE)
      [] i = 2 -> Call("sys_open", <<P(0, "*const u8"), P(1, "usize"), P(2, "usize")>>, FALSE)
      [] i = 3 -> Call("sys_close", <<P(0, "usize")>>, FALSE)
      [] i = 4 -> Call("sys_stat", <<P(0, "*const u8"), P(1, "*mut Stat")>>, FALSE)
      [] i = 5 -> Call("sys_fstat", <<P(0, "usize"), P(1, "*mut Stat")>>, FALSE)
      [] i = 8 -> Call("sys_lseek", <<P(0, "usize"), P(1, "i64"), P(2, "u8")>>, FALSE)
      [] i = 9 -> Call("sys_mmap", <<P(0, "usize"), P(1, "usize"), P(2, "usize"),
                                    P(3, "usize"), P(4, "i32"), P(5, "usize")>>, FALSE)
      [] i = 11 -> Call("sys_munmap", <<P(0, "usize"), P(1, "usize")>>, FALSE)
      [] i = 19 -> Call("sys_readv", <<P(0, "usize"), P(1, "*const IoVec"), P(2, "usize")>>, FALSE)
      [] i = 20 -> Call("sys_writev", <<P(0, "usize"), P(1, "*const IoVec"), P(2, "usize")>>, FALSE)
      [] i = 24 -> Call("sys_yield", <<>>, FALSE)
      [] i = 33 -> Call("sys_dup2", <<P(0, "usize"), P(1, "usize")>>, FALSE)
      [] i = 35 -> Call("sys_sleep", <<P(0, "usize")>>, FALSE)
      [] i = 39 -> Call("sys_getpid", <<>>, FALSE)
      [] i = 57 -> Call("sys_fork", <<>>, TRUE)
      [] i = 59 -> Call("sys_exec", <<P(0, "*const u8"), P(1, "usize"),
                                     P(2, "*const *const u8")>>, TRUE)
      [] i = 60 -> Diverge("sys_exit", <<P(0, "isize")>>)
      [] i = 61 -> Call("sys_wait", <<P(0, "usize"), P(1, "*mut i32")>>, FALSE)
      [] i = 62 -> Call("sys_kill", <<P(0, "usize")>>, FALSE)
      [] i = 78 -> Call("sys_getdirentry", <<P(0, "usize"), P(1, "*mut DirEntry")>>, FALSE)
      [] i = 96 -> Call("sys_get_time", <<>>, FALSE)
      [] i = 141 -> Call("sys_set_priority", <<P(0, "usize")>>, FALSE)
      [] i = 12 -> Stub("sys_brk is unimplemented")
      [] i = 13 -> Stub("sys_sigaction is unimplemented")
      [] i = 14 -> Stub("sys_sigprocmask is unimplemented")
      [] i = 16 -> Stub("sys_ioctl is unimplemented")
      [] i = 102 -> Stub("sys_getuid is unimplemented")
      [] i = 107 -> Stub("sys_geteuid is unimplemented")
      [] i = 108 -> Stub("sys_getegid is unimplemented")
      [] i = 131 -> Stub("sys_sigaltstack is unimplemented")
      [] i = 158 -> Call("sys_arch_prctl", <<P(0, "i32"), P(1, "usize")>>, TRUE)
      [] i = 218 -> TidStub("sys_set_tid_address is unimplemented")
      [] i = 231 -> WarnDiverge("sys_exit_group is unimplemented", "sys_exit", <<P(0, "isize")>>)
      [] OTHER -> Unknown

\* the identifiers that have an arm of their own
TableIds ==
    {0, 1, 2, 3, 4, 5, 8, 9, 11, 19, 20, 24, 33, 35, 39, 57, 59, 60, 61, 62, 78, 96, 141,
     12, 13, 14, 16, 102, 107, 108, 131, 158, 218, 231}

\* faulty variants of SelectArm: the arm of getpid lost; sys_poll (7) wired to a
\* handler; exit_group answered like the zero stubs; set_tid_address answered
\* like the zero stubs; getpid handed the trap frame
SelectArm_NoGetpid(i) == IF i = 39 THEN Unknown ELSE MatchArms(i)
SelectArm_Poll(i) == IF i = 7 THEN Call("sys_poll", <<>>, FALSE) ELSE MatchArms(i)
SelectArm_ExitGroupStub(i) ==
    IF i = 231 THEN Stub("sys_exit_group is unimplemented") ELSE MatchArms(i)
SelectArm_TidZero(i) ==
    IF i = 218 THEN Stub("sys_set_tid_address is unimplemented") ELSE MatchArms(i)
SelectArm_GetpidTf(i) == IF i = 39 THEN Call("sys_getpid", <<>>, TRUE) ELSE MatchArms(i)

\* `match id`: the arm that is taken
SelectArm(i) == MatchArms(i)

\* the arguments of a call as the arm evaluates them from the argument vector
EvalParams(params, a) ==
    [k \in 1..Len(params) |->
        [idx |-> params[k][1], val |-> Cast(a[params[k][1] + 1], params[k][2])]]

\* faulty variant: the id of the first thread, whoever calls
ThreadCurrentId_First(t) == 1

\* thread::current().id(): the id of the thread that executes the call
ThreadCurrentId(t) == t

\* warn!(msg)
Warning(msg) == [level |-> "warn", msg |-> msg]

\* error!("unknown syscall id: {:#x?}, args: {:x?}", id, args)
ErrorNotice(i, a) ==
    [level |-> "error", msg |-> "unknown syscall id: {:#x?}, args: {:x?}", id |-> i, args |-> a]

\* faulty variant: a stub that reports failure
StubResult_Enosys == Err("ENOSYS")

\* the stubs' `Ok(0)`
StubResult == Ok(0)

\* faulty variant: the error code returned without the sign
Collapsed_NoNegation(r) == IF r.tag = "Ok" THEN r.code ELSE SysErrorCode[r.err]

\* `match ret { Ok(code) => code, Err(err) => -(err as isize) }`
Collapsed(r) == IF r.tag = "Ok" THEN r.code ELSE -(SysErrorCode[r.err])

----------------------------------------------------------------------------
(* The state machine *)

NoRv == "none"
ZeroVec == [i \in 1..6 |-> RawWords[1]]

\* Outside syscall(): no invocation has left anything behind.
Idle(frames) ==
    /\ tf = frames
    /\ pc = [t \in Threads |-> "user"]
    /\ id = [t \in Threads |-> 0]
    /\ args = [t \in Threads |-> ZeroVec]
    /\ tfIn = tf
    /\ ret = [t \in Threads |-> NoResult]
    /\ rv = [t \in Threads |-> NoRv]
    /\ notices = [t \in Threads |-> <<>>]
    /\ calls = [t \in Threads |-> <<>>]
    /\ shown = <<>>

Init ==
    /\ \E f \in TfVals : Idle([t \in Threads |-> IF t = 1 THEN f ELSE 0])
    /\ err = "EUNDEF"

\* The trap subsystem calls syscall(i, a, tf) in context t, with an
\* identifier of `ids` and an argument vector of `vecs`.
Enter(t, ids, vecs) ==
    /\ pc[t] = "user"
    /\ \E i \in ids, a \in vecs :
        /\ id' = [id EXCEPT ![t] = i]
        /\ args' = [args EXCEPT ![t] = a]
    /\ pc' = [pc EXCEPT ![t] = "trapped"]
    /\ tfIn' = [tfIn EXCEPT ![t] = tf[t]]
    /\ UNCHANGED <<tf, ret, rv, notices, calls, err, shown>>

\* `let ret = match id { ... }` in context t.  A handler is external: its
\* result r is any of `results`, and it may write the trap frame (to any
\* value f) only when the arm hands it `tf`.
Dispatch(t, results) ==
    /\ pc[t] = "trapped"
    /\ LET arm == SelectArm(id[t])
           call(r) == [name |-> arm.name, params |-> EvalParams(arm.params, args[t]),
                       tf |-> arm.tf, result |-> r]
       IN
        \/ /\ arm.kind = "call" /\ arm.returns
           /\ \E r \in results, f \in (IF arm.tf THEN TfVals ELSE {tf[t]}) :
                /\ ret' = [ret EXCEPT ![t] = r]
                /\ tf' = [tf EXCEPT ![t] = f]
                /\ calls' = [calls EXCEPT ![t] = Append(@, call(r))]
           /\ pc' = [pc EXCEPT ![t] = "matched"]
           /\ UNCHANGED notices
        \/ /\ arm.kind = "call" /\ ~arm.returns
           /\ notices' = [notices EXCEPT ![t] =
                             IF arm.warn = "" THEN @ ELSE Append(@, Warning(arm.warn))]
           /\ calls' = [calls EXCEPT ![t] = Append(@, call(NoResult))]
           /\ pc' = [pc EXCEPT ![t] = "exited"]
           /\ UNCHANGED <<ret, tf>>
        \/ /\ arm.kind = "stub"
           /\ notices' = [notices EXCEPT ![t] = Append(@, Warning(arm.warn))]
           /\ ret' = [ret EXCEPT ![t] = StubResult]
           /\ pc' = [pc EXCEPT ![t] = "matched"]
           /\ UNCHANGED <<calls, tf>>
        \/ /\ arm.kind = "tid"
           /\ notices' = [notices EXCEPT ![t] = Append(@, Warning(arm.warn))]
           /\ ret' = [ret EXCEPT ![t] = Ok(ThreadCurrentId(t))]
           /\ pc' = [pc EXCEPT ![t] = "matched"]
           /\ UNCHANGED <<calls, tf>>
        \/ /\ arm.kind = "unknown"
           /\ notices' = [notices EXCEPT ![t] = Append(@, ErrorNotice(id[t], args[t]))]
           /\ calls' = [calls EXCEPT ![t] = Append(@, call(NoResult))]
           /\ \E f \in TfVals : tf' = [tf EXCEPT ![t] = f]
           /\ pc' = [pc EXCEPT ![t] = "faulted"]
           /\ UNCHANGED ret
    /\ UNCHANGED <<id, args, tfIn, rv, err, shown>>

\* `match ret { ... }` in context t: syscall() returns.
Collapse(t) ==
    /\ pc[t] = "matched"
    /\ rv' = [rv EXCEPT ![t] = Collapsed(ret[t])]
    /\ pc' = [pc EXCEPT ![t] = "returned"]
    /\ UNCHANGED <<id, args, tf, tfIn, ret, notices, calls, err, shown>>

\* fmt() is called on err once more.
Format ==
    /\ Len(shown) < MaxFmt
    /\ shown' = Append(shown, Display(err))
    /\ UNCHANGED <<pc, id, args, tf, tfIn, ret, rv, notices, calls, err>>

\* One context, every identifier, every argument vector, every handler result.
Next ==
    \/ Enter(1, Ids, ArgVecs)
    \/ Dispatch(1, SysResults)
    \/ Collapse(1)

Spec == Init /\ [][Next]_vars

\* Several contexts inside syscall() at once, on fewer inputs.
ConcIds == {7, 12, 39, 218, 231}
ConcVecs == {ArgVec(0), ArgVec(1)}
ConcResults == {Ok(0), Ok(MaxPayload), Err("EPERM")}

NextConc ==
    \E t \in Threads :
        \/ Enter(t, ConcIds, ConcVecs)
        \/ Dispatch(t, ConcResults)
        \/ Collapse(t)

InitConc ==
    /\ Idle([t \in Threads |-> 0])
    /\ err = "EUNDEF"

SpecConc == InitConc /\ [][NextConc]_vars

\* exit and exit_group side by side, on every argument vector.
ExitIds == {60, 231}

NextExit ==
    \E t \in Threads :
        \/ Enter(t, ExitIds, ArgVecs)
        \/ Dispatch(t, SysResults)

SpecExit == InitConc /\ [][NextExit]_vars

\* Display::fmt alone.
NextFmt == Format

InitFmt ==
    /\ Idle([t \in Threads |-> 0])
    /\ err \in SysError

SpecFmt == InitFmt /\ [][NextFmt]_vars

----------------------------------------------------------------------------
(* Properties of the dispatcher *)

\* `let ret = match id {...}` has been evaluated in context t
Dispatched(t) == pc[t] \in {"matched", "returned", "exited", "faulted"}

IsWarning(n) == n.level = "warn"
IsError(n) == n.level = "error"
HandlerCalls(t) == {k \in 1..Len(calls[t]) : calls[t][k].name # "trap::error"}
FaultCalls(t) == {k \in 1..Len(calls[t]) : calls[t][k].name = "trap::error"}

\* C1: the collapse of a result is sign-separated and collision-free: a
\* payload v >= 0 is returned as v, every error kind is returned as a strictly
\* negative integer, and no other result collapses to the integer returned.
C1_CollapseSignSeparated ==
    \A t \in Threads :
        pc[t] = "returned" =>
            /\ (ret[t].tag = "Ok" /\ ret[t].code >= 0) => (rv[t] = ret[t].code /\ rv[t] >= 0)
            /\ ret[t].tag = "Err" => rv[t] < 0
            /\ \A r \in SysResults : Collapsed(r) = rv[t] => r = ret[t]

\* C2: for an implemented identifier syscall() returns the payload the
\* handler returned, or the negated code of the error kind it returned.
C2_ReturnIsHandlerOutcome ==
    \A t \in Threads :
        (pc[t] = "returned" /\ HandlerCalls(t) # {}) =>
            /\ Len(calls[t]) = 1
            /\ calls[t][1].result.tag \in {"Ok", "Err"}
            /\ calls[t][1].result.tag = "Ok" => rv[t] = calls[t][1].result.code
            /\ calls[t][1].result.tag = "Err" =>
                  rv[t] = 0 - SysErrorCode[calls[t][1].result.err]

C2_Witness ==
    /\ pc[1] = "returned" /\ id[1] = 3
    /\ calls[1][1].name = "sys_close" /\ calls[1][1].result = Err("EBADF")
    /\ rv[1] = -9

\* the three paths, told apart by what the invocation did
TypedFired(t) == HandlerCalls(t) # {}
StubFired(t) ==
    /\ \E k \in 1..Len(notices[t]) : IsWarning(notices[t][k])
    /\ ret[t].tag = "Ok"
    /\ calls[t] = <<>>
UnknownFired(t) ==
    /\ \E k \in 1..Len(notices[t]) : IsError(notices[t][k])
    /\ FaultCalls(t) # {}

\* C3: every invocation takes exactly one of the three paths (a handler is
\* called; a warning and a fixed result; the fault path), and an identifier of
\* the table never takes the fault path.
C3_ExactlyOnePath ==
    \A t \in Threads :
        Dispatched(t) =>
            /\ Cardinality({q \in {"typed", "stub", "unknown"} :
                              \/ q = "typed" /\ TypedFired(t)
                              \/ q = "stub" /\ StubFired(t)
                              \/ q = "unknown" /\ UnknownFired(t)}) = 1
            /\ id[t] \in TableIds => ~UnknownFired(t)
            /\ id[t] \notin TableIds => UnknownFired(t)

C3_Witness ==
    /\ pc[1] = "exited" /\ id[1] = 231
    /\ TypedFired(1) /\ ~StubFired(1) /\ ~UnknownFired(1)

\* C4: an identifier without an arm, whatever the arguments: one error
\* notice with the identifier and the six argument words, the fault handler
\* called with the trap frame, no handler called, nothing returned.
C4_UnknownFaults ==
    \A t \in Threads :
        (Dispatched(t) /\ id[t] \notin TableIds) =>
            /\ Len(notices[t]) = 1
            /\ IsError(notices[t][1])
            /\ notices[t][1].id = id[t]
            /\ notices[t][1].args = args[t]
            /\ Len(calls[t]) = 1
            /\ calls[t][1].name = "trap::error" /\ calls[t][1].tf
            /\ pc[t] = "faulted"
            /\ ret[t] = NoResult /\ rv[t] = NoRv

C4_Witness ==
    /\ pc[1] = "faulted" /\ id[1] = 7 /\ args[1] = ArgVec(3)
    /\ notices[1][1].id = 7 /\ notices[1][1].args = ArgVec(3)

\* the stubs that answer zero
ZeroStubIds == {12, 13, 14, 16, 102, 107, 108, 131}

\* C5: a zero stub, whatever the arguments: the result is 0, exactly one
\* warning is emitted, no handler and no fault handler is called.
C5_ZeroStubs ==
    \A t \in Threads :
        (Dispatched(t) /\ id[t] \in ZeroStubIds) =>
            /\ pc[t] \in {"matched", "returned"}
            /\ ret[t] = Ok(0)
            /\ pc[t] = "returned" => rv[t] = 0
            /\ Len(notices[t]) = 1 /\ IsWarning(notices[t][1])
            /\ calls[t] = <<>>

C5_Witness ==
    /\ pc[1] = "returned" /\ id[1] = 102 /\ args[1] = ArgVec(9)
    /\ rv[1] = 0 /\ Len(notices[1]) = 1

\* contexts t and u are through exit_group and exit with the same args[0]
ExitPair(t, u) ==
    /\ id[t] = 231 /\ id[u] = 60
    /\ Dispatched(t) /\ Dispatched(u)
    /\ args[t][1] = args[u][1]

\* C6 as stated: exit_group(c) and exit(c) call the same handler with the
\* same code, have the same observable effects, and neither returns.
C6_ExitGroupSameAsExit ==
    \A t, u \in Threads :
        ExitPair(t, u) =>
            /\ calls[t] = calls[u]
            /\ notices[t] = notices[u]
            /\ pc[t] = "exited" /\ pc[u] = "exited"
            /\ rv[t] = NoRv /\ rv[u] = NoRv

\* C6 amended: the same handler call with the same code and no return; the
\* one difference is the warning exit_group emits first.
C6_ExitGroupIsExitPlusWarning ==
    \A t, u \in Threads :
        ExitPair(t, u) =>
            /\ calls[t] = calls[u]
            /\ Len(calls[u]) = 1 /\ calls[u][1].name = "sys_exit"
            /\ notices[u] = <<>>
            /\ Len(notices[t]) = 1 /\ IsWarning(notices[t][1])
            /\ pc[t] = "exited" /\ pc[u] = "exited"
            /\ rv[t] = NoRv /\ rv[u] = NoRv
            /\ tf[t] = tfIn[t] /\ tf[u] = tfIn[u]

C6_Witness ==
    /\ ExitPair(1, 2)
    /\ args[1][1] = RawWords[9]
    /\ NumVal(calls[1][1].params[1].val).neg

\* the phrase listed for an error kind, "Unknown error" for a kind not listed
ListedPhrase(e) ==
    IF \E i \in 1..Len(FmtArms) : FmtArms[i][1] = e
    THEN FmtArms[CHOOSE i \in 1..Len(FmtArms) : FmtArms[i][1] = e][2]
    ELSE "Unknown error"

\* C7: formatting an error kind yields the phrase listed for that kind
\* (EUNDEF, which has none: "Unknown error"), the same string every time.
C7_DisplayListedPhrase ==
    /\ \A k \in 1..Len(shown) : shown[k] = ListedPhrase(err)
    /\ \A j, k \in 1..Len(shown) : shown[j] = shown[k]

\* C8: with several contexts inside syscall() at once, each one's result is
\* what it is alone: a zero stub answers 0, set_tid_address answers the id of
\* its own caller, a handler's outcome is returned to the context that called
\* it, the fault notice carries the caller's own identifier and arguments.
C8_AsIfAlone ==
    \A t \in Threads :
        Dispatched(t) =>
            /\ id[t] \in ZeroStubIds =>
                  ret[t] = Ok(0) /\ (pc[t] = "returned" => rv[t] = 0)
            /\ id[t] = 218 =>
                  /\ ret[t] = Ok(t)
                  /\ pc[t] = "returned" => (rv[t] = t /\ \A u \in Threads \ {t} : rv[t] # u)
            /\ id[t] = 39 =>
                  /\ Len(calls[t]) = 1 /\ calls[t][1].name = "sys_getpid"
                  /\ ret[t] = calls[t][1].result
                  /\ pc[t] = "returned" => rv[t] = Collapsed(calls[t][1].result)
            /\ id[t] = 231 => (pc[t] = "exited" /\ rv[t] = NoRv)
            /\ id[t] = 7 =>
                  /\ pc[t] = "faulted"
                  /\ notices[t][1].id = 7 /\ notices[t][1].args = args[t]

C8_Witness ==
    /\ id[1] = 218 /\ pc[1] = "matched"
    /\ id[2] = 218 /\ pc[2] = "returned" /\ rv[2] = 2

\* the integer parameters of the handler calls of context t, with their
\* position in the call
IntParams(t) ==
    {<<c, k>> \in (1..Len(calls[t])) \X (1..6) :
        /\ calls[t][c].name # "trap::error"
        /\ k <= Len(calls[t][c].params)
        /\ ~IsPointer(calls[t][c].params[k].val.ty)}

ParamOf(t, ck) == calls[t][ck[1]].params[ck[2]]

\* C9 as stated: every integer parameter has the numeric value of the raw
\* argument word at its position, whatever the word.
C9_IntParamsEqualRawWords ==
    \A t \in Threads : \A ck \in IntParams(t) :
        /\ ParamOf(t, ck).idx = ck[2] - 1
        /\ NumVal(ParamOf(t, ck).val) = WordNum(args[t][ck[2]])

\* the word w is a value of type ty: no bit above the type's width is set,
\* nor the sign bit of a signed type
Fits(w, ty) ==
    /\ \A i \in 1..WordBytes : i * U8Bits > TypeBits(ty) => w[i] = 0
    /\ IsSigned(ty) => w[TypeBits(ty) \div U8Bits] < ByteBase \div 2

\* C9 amended: every integer parameter is the raw word at its position
\* converted to the parameter's type: its low bits, nothing above the type's
\* width, the numeric value of the word when the word is a value of the type
\* (always, for usize); lseek's whence is the low byte of args[2], mmap's
\* fifth parameter the low 32 bits of args[4], exit's code args[0] as isize.
C9_IntParamsAreCastRawWords ==
    \A t \in Threads : \A ck \in IntParams(t) :
        LET p == ParamOf(t, ck)
            w == args[t][ck[2]]
        IN  /\ p.idx = ck[2] - 1
            /\ \A i \in 1..WordBytes :
                  p.val.bits[i] = IF i * U8Bits <= TypeBits(p.val.ty) THEN w[i] ELSE 0
            /\ Fits(w, p.val.ty) => NumVal(p.val) = WordNum(w)
            /\ p.val.ty = "usize" => NumVal(p.val) = WordNum(w)
            /\ (id[t] = 8 /\ ck[2] = 3) =>
                  /\ p.val.ty = "u8"
                  /\ NumVal(p.val) = WordNum(<<w[1], 0, 0, 0, 0, 0, 0, 0>>)
            /\ (id[t] = 9 /\ ck[2] = 5) =>
                  /\ p.val.ty = "i32"
                  /\ p.val.bits = <<w[1], w[2], w[3], w[4], 0, 0, 0, 0>>
            /\ (id[t] = 60 /\ ck[2] = 1) =>
                  /\ p.val.ty = "isize"
                  /\ p.val.bits = w

C9_Witness ==
    /\ id[1] = 8 /\ pc[1] = "returned"
    /\ args[1][3] = RawWords[4]
    /\ NumVal(calls[1][1].params[3].val) = WordNum(Word(2, 0, 0, 0, 0, 0, 0, 0))

\* the identifiers whose handler is given the trap frame
FrameIds == {57, 59, 158}

\* C10: the trap frame is handed only to the handlers of fork, exec and
\* arch_prctl and, for an identifier without an arm, to the fault handler;
\* for every other identifier the trap frame is unchanged by the invocation.
C10_FrameOnlyWhereHanded ==
    \A t \in Threads :
        Dispatched(t) =>
            /\ \A k \in 1..Len(calls[t]) :
                  calls[t][k].tf <=>
                      \/ id[t] \in FrameIds
                      \/ id[t] \notin TableIds /\ calls[t][k].name = "trap::error"
            /\ id[t] \in TableIds \ FrameIds => tf[t] = tfIn[t]

C10_Witness ==
    /\ id[1] = 39 /\ pc[1] = "returned" /\ tf[1] = tfIn[1]
    /\ ~calls[1][1].tf

====
